---------------------------- MODULE Spec2Model ----------------------------
(***************************************************************************)
(* A model of the House-Price-Predictor ingestion, inspection and          *)
(* bivariate-analysis code:                                                *)
(*   src/src/ingest_data.py                                                *)
(*   src/analysis/analyze_src/basic_data_inspection.py                     *)
(*   src/analysis/analyze_src/bivariate_analysis.py                        *)
(*                                                                         *)
(* Every method is an operator from the state it reads to the state it     *)
(* leaves behind; each action applies one method to inputs drawn from a    *)
(* small set and records the request in `call` and the outcome in `ret`.   *)
(* A raised exception is an outcome: the caller may catch it and go on.    *)
(***************************************************************************)
EXTENDS Integers, Sequences, FiniteSets, TLC

VARIABLES
    cwd,        \* the process's working directory
    fs,         \* the extraction directories, by location
    df,         \* the Table the caller hands to the inspector and the analyzer
    strategy,   \* context object -> its self.strategy
    installed,  \* context object -> the strategy the caller last installed in it
    log,        \* the strategy methods invoked so far, in order
    sink,       \* what has been printed to the console, in order
    open,       \* pyplot's open figures, the last one current
    rendered,   \* the figures plt.show() has displayed, in order
    call,       \* the operation the last step performed, with its arguments
    ret         \* what that operation returned or raised

vars == <<cwd, fs, df, strategy, installed, log, sink, open, rendered, call, ret>>

-----------------------------------------------------------------------------
(* Strings, as Python computes on them.                                    *)

\* str.endswith
endswith(s, suffix) ==
    /\ Len(s) >= Len(suffix)
    /\ SubSeq(s, Len(s) - Len(suffix) + 1, Len(s)) = suffix

\* the index of the first occurrence of the one-character string c in s, 0 if none
find(s, c) ==
    IF \E i \in 1..Len(s) : SubSeq(s, i, i) = c
    THEN CHOOSE i \in 1..Len(s) :
            /\ SubSeq(s, i, i) = c
            /\ \A j \in 1..(i - 1) : SubSeq(s, j, j) # c
    ELSE 0

\* str.split(sep) for a one-character separator
RECURSIVE split(_, _)
split(s, sep) ==
    LET i == find(s, sep) IN
    IF i = 0 THEN <<s>>
    ELSE <<SubSeq(s, 1, i - 1)>> \o split(SubSeq(s, i + 1, Len(s)), sep)

RECURSIVE SelectNonEmpty(_)
SelectNonEmpty(ss) ==
    IF ss = <<>> THEN <<>>
    ELSE (IF Head(ss) = "" THEN <<>> ELSE <<Head(ss)>>) \o SelectNonEmpty(Tail(ss))

-----------------------------------------------------------------------------
(* Tables (pandas DataFrames): named columns, a dtype per column, rows in  *)
(* order.  A cell is a string; the missing value is NaN.                   *)

NaN == "NaN"

Table(columns, dtype, rows) == [columns |-> columns, dtype |-> dtype, rows |-> rows]

Digits == {"0", "1", "2", "3", "4", "5", "6", "7", "8", "9"}

IsNumeral(s) == Len(s) > 0 /\ \A i \in 1..Len(s) : SubSeq(s, i, i) \in Digits

\* pd.read_csv on the text of a file: the first line is the header, every other
\* non-blank line a row; an empty field is a missing value; a column whose
\* present fields are all numerals is numeric, any other an object column.
read_csv(text) ==
    LET lines   == SelectNonEmpty(split(text, "\n"))
        columns == split(lines[1], ",")
        fields  == [r \in 1..(Len(lines) - 1) |-> split(lines[r + 1], ",")]
        cell(r, c) == IF c > Len(fields[r]) \/ fields[r][c] = "" THEN NaN
                      ELSE fields[r][c]
        rows    == [r \in 1..(Len(lines) - 1) |->
                        [c \in 1..Len(columns) |-> cell(r, c)]]
        numeric(c) == \A r \in 1..Len(rows) : rows[r][c] = NaN \/ IsNumeral(rows[r][c])
        dtype   == [c \in 1..Len(columns) |-> IF numeric(c) THEN "num" ELSE "obj"]
    IN Table(columns, dtype, rows)

-----------------------------------------------------------------------------
(* Ingestion: src/src/ingest_data.py                                       *)

CsvA == "Gr Liv Area,SalePrice\n1000,200000\n1500,250000\n2000,300000\n"
CsvB == "Overall Qual,SalePrice\nGood,200000\n,250000\n"
Txt  == "readme"

\* The archives on disk, by path: archive member name -> file text.
ArchiveAt ==
    [p \in {"a.zip", "b.zip", "c.zip", "e.zip", "m.zip", "d.zip", "a.ZIP", "a.tar"} |->
        CASE p = "a.zip" -> ("x.csv" :> CsvA)
          [] p = "b.zip" -> ("y.csv" :> CsvB)
          [] p = "c.zip" -> ("x.csv" :> CsvB @@ "n.txt" :> Txt)
          [] p = "e.zip" -> ("n.txt" :> Txt)
          [] p = "m.zip" -> ("x.csv" :> CsvA @@ "y.csv" :> CsvB)
          [] p = "d.zip" -> ("s/x.csv" :> CsvA)
          [] p = "a.ZIP" -> ("x.csv" :> CsvA)
          [] p = "a.tar" -> ("x.csv" :> CsvA)]

Paths == DOMAIN ArchiveAt

\* The working directories a caller may run in: the project directory
\* D:\ML Projects\House Price Prediction, or any other.
ProjectDir == "D:\\ML Projects\\House Price Prediction"
OtherDir   == "D:\\work"
WorkDirs   == {ProjectDir, OtherDir}

\* ntpath.join / path resolution of a name against the working directory:
\* a name that starts with a drive is absolute, any other is relative to wd.
resolve(wd, name) ==
    IF Len(name) >= 2 /\ SubSeq(name, 2, 2) = ":" THEN name ELSE wd \o "\\" \o name

\* line 26: the directory zip_ref.extractall writes into
ExtractallDir == "D:\\ML Projects\\House Price Prediction\\extracted_data"
\* line 29: the directory os.listdir lists
ListdirDir == "extracted_data"
\* line 38: the directory the csv file is read from
ReadDir == "D:\\ML Projects\\House Price Prediction\\extracted_data"

Locations == {resolve(wd, ListdirDir) : wd \in WorkDirs} \cup {ExtractallDir, ReadDir}

NoFiles == [n \in {} |-> ""]
NoDir   == [exists |-> FALSE, files |-> NoFiles]
Dir(files) == [exists |-> TRUE, files |-> files]

\* ZipFile.extractall(dir): creates dir when missing, writes every member,
\* overwrites a file of the same name and removes nothing.
extractall(fsv, dir, members) ==
    [fsv EXCEPT ![dir] = Dir(members @@ fsv[dir].files)]

\* os.listdir(dir): the names directly in dir (a file in a sub-directory shows
\* as the sub-directory's name).
listdir(d) ==
    {IF find(n, "/") = 0 THEN n ELSE SubSeq(n, 1, find(n, "/") - 1) : n \in DOMAIN d.files}

Raise(cls, msg) == [kind |-> "error", cls |-> cls, msg |-> msg]
ReturnTable(t)  == [kind |-> "table", table |-> t]
ReturnNone      == [kind |-> "none"]

\* ingest with the extension test moved after the extraction (a fault: the
\* archive is opened and extracted before its path is rejected)
ingest_extract_first(file_path, wd, fsv) ==
    LET fs1 == extractall(fsv, resolve(wd, ExtractallDir), ArchiveAt[file_path])
    IN  [fs |-> fs1, ret |-> Raise("ValueError", "The provided file is not a .zip file")]

\* ZipDataIngestor.ingest(file_path) run in working directory wd on the
\* filesystem fsv: the filesystem it leaves and what it returns or raises.
ingest(file_path, wd, fsv) ==
    IF ~endswith(file_path, ".zip")
    THEN [fs |-> fsv, ret |-> Raise("ValueError", "The provided file is not a .zip file")]
    ELSE
    LET fs1 == extractall(fsv, resolve(wd, ExtractallDir), ArchiveAt[file_path])
        listed == fs1[resolve(wd, ListdirDir)]
        csv_files == {f \in listdir(listed) : endswith(f, ".csv")}
        csv_file == CHOOSE f \in csv_files : TRUE
        from == fs1[resolve(wd, ReadDir)]
    IN  [fs |-> fs1,
         ret |->
            IF ~listed.exists
            THEN Raise("FileNotFoundError", "os.listdir: no such directory")
            ELSE IF Cardinality(csv_files) = 0
            THEN Raise("FileNotFoundError", "No CSV file found in extracted_data")
            ELSE IF Cardinality(csv_files) > 1
            THEN Raise("ValueError", "Multiple CSV files found. Specify which one to use")
            ELSE IF csv_file \notin DOMAIN from.files
            THEN Raise("FileNotFoundError", "pd.read_csv: no such file")
            ELSE ReturnTable(read_csv(from.files[csv_file]))]

Extensions == {".zip", ".ZIP", "", "zip", ".csv", ".zip "}

\* get_data_ingestor with the test written as a suffix test (a fault: "zip"
\* and ".zip" are both accepted)
get_data_ingestor_suffix(file_extension) ==
    IF endswith(file_extension, "zip")
    THEN [kind |-> "ingestor", cls |-> "ZipDataIngestor"]
    ELSE Raise("ValueError", "No ingestor available for file extension: " \o file_extension)

\* DataIngestorFactory.get_data_ingestor(file_extension)
get_data_ingestor(file_extension) ==
    IF file_extension = ".zip"
    THEN [kind |-> "ingestor", cls |-> "ZipDataIngestor"]
    ELSE Raise("ValueError", "No ingestor available for file extension: " \o file_extension)

-----------------------------------------------------------------------------
(* The Tables handed to the inspector and the analyzer.                    *)

MaxRows == 1

ScenarioTable == read_csv(CsvA)

\* column layouts: no columns, numeric only, numeric and object, object only
Layouts ==
    { [columns |-> <<>>, dtype |-> <<>>],
      [columns |-> <<"Gr Liv Area", "SalePrice">>, dtype |-> <<"num", "num">>],
      [columns |-> <<"Overall Qual", "SalePrice">>, dtype |-> <<"obj", "num">>],
      [columns |-> <<"Overall Qual">>, dtype |-> <<"obj">>] }

Cells(dtype) == IF dtype = "num" THEN {"1000", NaN} ELSE {"Good", NaN}

RowsOf(layout) ==
    {r \in [1..Len(layout.columns) -> {"1000", "Good", NaN}] :
        \A c \in 1..Len(layout.columns) : r[c] \in Cells(layout.dtype[c])}

TablesOf(layout) ==
    IF layout.columns = <<>> THEN {Table(<<>>, <<>>, <<>>)}
    ELSE UNION {{Table(layout.columns, layout.dtype, rows) :
                    rows \in [1..n -> RowsOf(layout)]} : n \in 0..MaxRows}

Tables == UNION {TablesOf(l) : l \in Layouts} \cup {ScenarioTable, read_csv(CsvB)}

SmallTables == {ScenarioTable, read_csv(CsvB), Table(<<>>, <<>>, <<>>)}

HasColumn(d, name) == \E c \in 1..Len(d.columns) : d.columns[c] = name
ColumnIndex(d, name) == CHOOSE c \in 1..Len(d.columns) : d.columns[c] = name
NonNull(d, c) == Cardinality({r \in 1..Len(d.rows) : d.rows[r][c] # NaN})

RECURSIVE SelectSeq2(_, _)
\* the subsequence of the indices in seq that are in keep, in order
SelectSeq2(seq, keep) ==
    IF seq = <<>> THEN <<>>
    ELSE (IF Head(seq) \in keep THEN <<Head(seq)>> ELSE <<>>) \o SelectSeq2(Tail(seq), keep)

Indices(n) == [i \in 1..n |-> i]

-----------------------------------------------------------------------------
(* Inspection: src/analysis/analyze_src/basic_data_inspection.py           *)

DataTypeInspectionStrategy == "DataTypeInspectionStrategy"
SummaryStatisticsInspectionStrategy == "SummaryStatisticsInspectionStrategy"
InspectionStrategies == {DataTypeInspectionStrategy, SummaryStatisticsInspectionStrategy}

\* What print writes to the console: a line of text or a report.
Text(t) == [kind |-> "text", text |-> t, report |-> <<>>]
Report(kind, lines) == [kind |-> kind, text |-> "", report |-> lines]

\* df.info(): writes, per column, its dtype and non-null count (and the row
\* count) to the console itself, and returns None.
info(d) ==
    Report("info",
        <<[name |-> "rows", dtype |-> "", count |-> Len(d.rows)]>> \o
        [c \in 1..Len(d.columns) |->
            [name |-> d.columns[c], dtype |-> d.dtype[c], count |-> NonNull(d, c)]])

\* df.describe() and df.describe(include=["O"]), as far as the columns described
\* and their counts go (the other statistics are pandas's):
\*   without include, the numeric columns, or every column when none is numeric;
\*   with include=["O"], the object columns;
\*   a ValueError when the table has no columns or no column is selected.
DescribedColumns(d, include) ==
    LET ofType(t) == {c \in 1..Len(d.columns) : d.dtype[c] = t}
    IN  IF include = "O" THEN ofType("obj")
        ELSE IF ofType("num") # {} THEN ofType("num")
        ELSE 1..Len(d.columns)

describe(d, include) ==
    LET cols == SelectSeq2(Indices(Len(d.columns)), DescribedColumns(d, include))
    IN  IF Len(d.columns) = 0
        THEN Raise("ValueError", "Cannot describe a DataFrame without columns")
        ELSE IF cols = <<>>
        THEN Raise("ValueError", "No objects to concatenate")
        ELSE [kind |-> "value",
              value |-> Report("describe",
                  [i \in 1..Len(cols) |->
                      [name |-> d.columns[cols[i]], dtype |-> d.dtype[cols[i]],
                       count |-> NonNull(d, cols[i])]])]

\* DataTypeInspectionStrategy.inspect(df)
DataTypeInspectionStrategy_inspect(d, sinkv) ==
    LET s1 == Append(sinkv, Text("\nData Types adn Non-null Counts:"))
        s2 == Append(s1, info(d))
        s3 == Append(s2, Text("None"))
    IN  [df |-> d, sink |-> s3, ret |-> ReturnNone]

\* SummaryStatisticsInspectionStrategy.inspect(df)
SummaryStatisticsInspectionStrategy_inspect(d, sinkv) ==
    LET s1 == Append(sinkv, Text("\n\nSummary Statistics (Numerical Features)"))
        numerical == describe(d, "")
        s2 == Append(s1, numerical.value)
        s3 == Append(s2, Text("\n\nSummary Statistics (Categorical Features)"))
        categorical == describe(d, "O")
        s4 == Append(s3, categorical.value)
    IN  IF numerical.kind = "error" THEN [df |-> d, sink |-> s1, ret |-> numerical]
        ELSE IF categorical.kind = "error" THEN [df |-> d, sink |-> s3, ret |-> categorical]
        ELSE [df |-> d, sink |-> s4, ret |-> ReturnNone]

\* strategy.inspect(df), dispatched on the class of the strategy object
inspect(s, d, sinkv) ==
    IF s = DataTypeInspectionStrategy
    THEN DataTypeInspectionStrategy_inspect(d, sinkv)
    ELSE SummaryStatisticsInspectionStrategy_inspect(d, sinkv)

-----------------------------------------------------------------------------
(* Bivariate analysis: src/analysis/analyze_src/bivariate_analysis.py      *)

NumericalVsNumericalAnalysis == "NumericalVsNumericalAnalysis"
CategoricalVsNumericalStrategyAnalysis == "CategoricalVsNumericalStrategyAnalysis"
AnalysisStrategies == {NumericalVsNumericalAnalysis, CategoricalVsNumericalStrategyAnalysis}

\* plt.figure(figsize=(10,6)): a new, empty figure, made the current one
figure(openv) ==
    Append(openv, [kind |-> "empty", x |-> <<>>, y |-> <<>>,
                   title |-> "", xlabel |-> "", ylabel |-> "", xticks_rotation |-> 0])

\* the current figure changed by f
Current(openv) == openv[Len(openv)]
WithCurrent(openv, fig) == [openv EXCEPT ![Len(openv)] = fig]

\* sns.scatterplot(x=feature1, y=feature2, data=df) on the current figure: a
\* ValueError when a name is no column of df (x is looked up first); otherwise
\* one point per row that has both values, in row order (seaborn drops the rows
\* with a missing x or y).
scatterplot(openv, d, feature1, feature2) ==
    IF ~HasColumn(d, feature1)
    THEN Raise("ValueError", "Could not interpret value for x: " \o feature1)
    ELSE IF ~HasColumn(d, feature2)
    THEN Raise("ValueError", "Could not interpret value for y: " \o feature2)
    ELSE
    LET cx == ColumnIndex(d, feature1)
        cy == ColumnIndex(d, feature2)
        complete == {r \in 1..Len(d.rows) : d.rows[r][cx] # NaN /\ d.rows[r][cy] # NaN}
        kept == SelectSeq2(Indices(Len(d.rows)), complete)
    IN  [kind |-> "value",
         value |-> WithCurrent(openv,
            [Current(openv) EXCEPT !.kind = "scatter",
                                   !.x = [i \in 1..Len(kept) |-> d.rows[kept[i]][cx]],
                                   !.y = [i \in 1..Len(kept) |-> d.rows[kept[i]][cy]]])]

title(openv, t)  == WithCurrent(openv, [Current(openv) EXCEPT !.title = t])
xlabel(openv, t) == WithCurrent(openv, [Current(openv) EXCEPT !.xlabel = t])
ylabel(openv, t) == WithCurrent(openv, [Current(openv) EXCEPT !.ylabel = t])
xticks(openv, rotation) ==
    WithCurrent(openv, [Current(openv) EXCEPT !.xticks_rotation = rotation])

\* plt.show(): displays every open figure, which is closed with its window
show(openv, renderedv) == [open |-> <<>>, rendered |-> renderedv \o openv]

\* analyze with the two features handed to scatterplot in the wrong order (a fault)
NumericalVsNumericalAnalysis_analyze_swapped(d, feature1, feature2, openv, renderedv) ==
    LET o1 == figure(openv)
        plot == scatterplot(o1, d, feature2, feature1)
        o2 == title(plot.value, feature1 \o " vs " \o feature2)
        o3 == xlabel(o2, feature1)
        o4 == ylabel(o3, feature2)
        shown == show(o4, renderedv)
    IN  IF plot.kind = "error"
        THEN [df |-> d, open |-> o1, rendered |-> renderedv, ret |-> plot]
        ELSE [df |-> d, open |-> shown.open, rendered |-> shown.rendered, ret |-> ReturnNone]

\* NumericalVsNumericalAnalysis.analyze(df, feature1, feature2)
NumericalVsNumericalAnalysis_analyze(d, feature1, feature2, openv, renderedv) ==
    LET o1 == figure(openv)
        plot == scatterplot(o1, d, feature1, feature2)
        o2 == title(plot.value, feature1 \o " vs " \o feature2)
        o3 == xlabel(o2, feature1)
        o4 == ylabel(o3, feature2)
        shown == show(o4, renderedv)
    IN  IF plot.kind = "error"
        THEN [df |-> d, open |-> o1, rendered |-> renderedv, ret |-> plot]
        ELSE [df |-> d, open |-> shown.open, rendered |-> shown.rendered, ret |-> ReturnNone]

\* CategoricalVsNumericalStrategyAnalysis.analyze(df, feature1, feature2)
CategoricalVsNumericalStrategyAnalysis_analyze(d, feature1, feature2, openv, renderedv) ==
    LET o1 == figure(openv)
        plot == scatterplot(o1, d, feature1, feature2)
        o2 == title(plot.value, feature1 \o " vs " \o feature2)
        o3 == xlabel(o2, feature1)
        o4 == ylabel(o3, feature2)
        o5 == xticks(o4, 45)
        shown == show(o5, renderedv)
    IN  IF plot.kind = "error"
        THEN [df |-> d, open |-> o1, rendered |-> renderedv, ret |-> plot]
        ELSE [df |-> d, open |-> shown.open, rendered |-> shown.rendered, ret |-> ReturnNone]

\* strategy.analyze(df, feature1, feature2), dispatched on the class of the strategy object
analyze(s, d, feature1, feature2, openv, renderedv) ==
    IF s = NumericalVsNumericalAnalysis
    THEN NumericalVsNumericalAnalysis_analyze(d, feature1, feature2, openv, renderedv)
    ELSE CategoricalVsNumericalStrategyAnalysis_analyze(d, feature1, feature2, openv, renderedv)

-----------------------------------------------------------------------------
(* The context classes DataInspector and BivariateAnalyzer.                *)

MaxCalls == 2

Inspectors == {"inspector1", "inspector2"}
Analyzers  == {"analyzer"}
Contexts   == Inspectors \cup Analyzers

StrategiesFor(self) ==
    IF self \in Inspectors THEN InspectionStrategies ELSE AnalysisStrategies

\* the call of a strategy's method, as the strategy object sees it
Invocation(s, args) == [strategy |-> s, args |-> args]

\* DataInspector.__init__ / BivariateAnalyzer.__init__: self.strategy = strategy
Construct(assignment) == assignment

\* DataInspector.set_strategy(strategy)
DataInspector_set_strategy(strat, self, s) == [strat EXCEPT ![self] = s]

\* execute_strategy that drops the rows with a missing value from the caller's
\* table before inspecting it (a fault: df.dropna(inplace=True))
DataInspector_execute_strategy_dropna(strat, self, d, sinkv, logv) ==
    LET complete == {r \in 1..Len(d.rows) :
                        \A c \in 1..Len(d.columns) : d.rows[r][c] # NaN}
        kept == SelectSeq2(Indices(Len(d.rows)), complete)
        d1 == Table(d.columns, d.dtype, [i \in 1..Len(kept) |-> d.rows[kept[i]]])
        r == inspect(strat[self], d1, sinkv)
    IN  [strategy |-> strat, df |-> r.df, sink |-> r.sink, ret |-> r.ret,
         log |-> Append(logv, Invocation(strat[self], <<d>>))]

\* DataInspector.execute_strategy(df)
DataInspector_execute_strategy(strat, self, d, sinkv, logv) ==
    LET r == inspect(strat[self], d, sinkv)
    IN  [strategy |-> strat, df |-> r.df, sink |-> r.sink, ret |-> r.ret,
         log |-> Append(logv, Invocation(strat[self], <<d>>))]

\* set_strategy that does not store its argument (a fault)
BivariateAnalyzer_set_strategy_dropped(strat, self, s) == strat

\* BivariateAnalyzer.set_strategy(strategy)
BivariateAnalyzer_set_strategy(strat, self, s) == [strat EXCEPT ![self] = s]

\* BivariateAnalyzer.execute_analysis(df, feature1, feature2)
BivariateAnalyzer_execute_analysis(strat, self, d, feature1, feature2, openv, renderedv, logv) ==
    LET r == analyze(strat[self], d, feature1, feature2, openv, renderedv)
    IN  [strategy |-> strat, df |-> r.df, open |-> r.open, rendered |-> r.rendered,
         ret |-> r.ret,
         log |-> Append(logv, Invocation(strat[self], <<d, feature1, feature2>>))]

-----------------------------------------------------------------------------
(* The state machine.                                                      *)

Call(op, self, args) == [op |-> op, self |-> self, args |-> args]

\* the feature pairs a caller asks for: two columns in either order, one column
\* twice, a categorical column, and "Lot Area", a column of no table, as the
\* first feature, the second, and both
FeaturePairs ==
    { <<"Gr Liv Area", "SalePrice">>, <<"SalePrice", "Gr Liv Area">>,
      <<"Gr Liv Area", "Gr Liv Area">>, <<"Overall Qual", "SalePrice">>,
      <<"Lot Area", "SalePrice">>, <<"Gr Liv Area", "Lot Area">>,
      <<"Lot Area", "Lot Area">> }

\* an extracted_data directory may exist in another working directory
InitialFs ==
    {[l \in Locations |-> IF l = resolve(OtherDir, ListdirDir) THEN other ELSE NoDir] :
        other \in {NoDir, Dir("old.csv" :> CsvB)}}

InitWith(dirs, fss, tables, contexts) ==
    /\ cwd \in dirs
    /\ fs \in fss
    /\ df \in tables
    /\ strategy \in {Construct(a) : a \in
            {a \in [Contexts -> InspectionStrategies \cup AnalysisStrategies] :
                \A c \in Contexts :
                    /\ a[c] \in StrategiesFor(c)
                    /\ c \notin contexts =>
                        a[c] \in {DataTypeInspectionStrategy, NumericalVsNumericalAnalysis}}}
    /\ installed = strategy
    /\ log = <<>>
    /\ sink = <<>>
    /\ open = <<>>
    /\ rendered = <<>>
    /\ call = Call("init", "", <<>>)
    /\ ret = ReturnNone

Init == InitWith(WorkDirs, InitialFs, Tables, Contexts)

Ingest(file_path) ==
    LET r == ingest(file_path, cwd, fs) IN
    /\ call' = Call("ingest", "ZipDataIngestor", <<file_path>>)
    /\ fs' = r.fs
    /\ ret' = r.ret
    /\ UNCHANGED <<cwd, df, strategy, installed, log, sink, open, rendered>>

GetDataIngestor(file_extension) ==
    /\ call' = Call("get_data_ingestor", "DataIngestorFactory", <<file_extension>>)
    /\ ret' = get_data_ingestor(file_extension)
    /\ UNCHANGED <<cwd, fs, df, strategy, installed, log, sink, open, rendered>>

InspectorSetStrategy(self, s) ==
    /\ call' = Call("set_strategy", self, <<s>>)
    /\ strategy' = DataInspector_set_strategy(strategy, self, s)
    /\ installed' = [installed EXCEPT ![self] = s]
    /\ ret' = ReturnNone
    /\ UNCHANGED <<cwd, fs, df, log, sink, open, rendered>>

ExecuteStrategy(self) ==
    LET r == DataInspector_execute_strategy(strategy, self, df, sink, log) IN
    /\ Len(log) < MaxCalls
    /\ call' = Call("execute_strategy", self, <<df>>)
    /\ strategy' = r.strategy
    /\ df' = r.df
    /\ sink' = r.sink
    /\ log' = r.log
    /\ ret' = r.ret
    /\ UNCHANGED <<cwd, fs, installed, open, rendered>>

AnalyzerSetStrategy(self, s) ==
    /\ call' = Call("set_strategy", self, <<s>>)
    /\ strategy' = BivariateAnalyzer_set_strategy(strategy, self, s)
    /\ installed' = [installed EXCEPT ![self] = s]
    /\ ret' = ReturnNone
    /\ UNCHANGED <<cwd, fs, df, log, sink, open, rendered>>

ExecuteAnalysis(self, feature1, feature2) ==
    LET r == BivariateAnalyzer_execute_analysis(strategy, self, df, feature1, feature2,
                                                open, rendered, log) IN
    /\ Len(log) < MaxCalls
    /\ call' = Call("execute_analysis", self, <<df, feature1, feature2>>)
    /\ strategy' = r.strategy
    /\ df' = r.df
    /\ open' = r.open
    /\ rendered' = r.rendered
    /\ log' = r.log
    /\ ret' = r.ret
    /\ UNCHANGED <<cwd, fs, installed, sink>>

IngestNext ==
    \/ \E file_path \in Paths : Ingest(file_path)
    \/ \E file_extension \in Extensions : GetDataIngestor(file_extension)

InspectNext ==
    \/ \E self \in Inspectors, s \in InspectionStrategies : InspectorSetStrategy(self, s)
    \/ \E self \in Inspectors : ExecuteStrategy(self)

AnalysisNext ==
    \/ \E self \in Analyzers, s \in AnalysisStrategies : AnalyzerSetStrategy(self, s)
    \/ \E self \in Analyzers, ff \in FeaturePairs : ExecuteAnalysis(self, ff[1], ff[2])

StrategyNext == InspectNext \/ AnalysisNext

Next == IngestNext \/ InspectNext \/ AnalysisNext

\* The whole program.  The three components share no state: IngestNext writes
\* fs only, InspectNext the inspectors' strategy, log and sink, AnalysisNext the
\* analyzer's strategy, log, open and rendered; so each is checked on its own
\* below, on every input of its own.
Spec == Init /\ [][Next]_vars

\* the ingestor alone, in every working directory
IngestSpec ==
    InitWith(WorkDirs, InitialFs, {ScenarioTable}, {}) /\ [][IngestNext]_vars

\* the inspectors alone, on every table
InspectSpec ==
    InitWith({ProjectDir}, {[l \in Locations |-> NoDir]}, Tables, Inspectors)
        /\ [][InspectNext]_vars

\* the analyzer alone, on every table
AnalysisSpec ==
    InitWith({ProjectDir}, {[l \in Locations |-> NoDir]}, Tables, Analyzers)
        /\ [][AnalysisNext]_vars

\* the inspectors and the analyzer sharing one table
StrategySpec ==
    InitWith({ProjectDir}, {[l \in Locations |-> NoDir]}, SmallTables, Contexts)
        /\ [][StrategyNext]_vars

-----------------------------------------------------------------------------
(* The error taxonomy of the design, in terms of what the code raises.     *)

UnsupportedFormatError(r) ==
    /\ r.kind = "error"
    /\ r.cls = "ValueError"
    /\ \/ r.msg = "The provided file is not a .zip file"
       \/ SubSeq(r.msg, 1, 26) = "No ingestor available for "

NoTabularFileFoundError(r) ==
    /\ r.kind = "error"
    /\ r.cls = "FileNotFoundError"
    /\ r.msg = "No CSV file found in extracted_data"

AmbiguousTabularFileError(r) ==
    /\ r.kind = "error"
    /\ r.cls = "ValueError"
    /\ r.msg = "Multiple CSV files found. Specify which one to use"

\* an error of analyze's own that names the column; seaborn's ValueError is not one
UnknownColumnError(r, name) ==
    /\ r.kind = "error"
    /\ r.cls = "UnknownColumnError"
    /\ r.msg = name

\* the tabular files an archive contains
TabularFiles(members) == {n \in DOMAIN members : endswith(n, ".csv")}

\* an archive whose members are all at its top level
Flat(members) == \A n \in DOMAIN members : find(n, "/") = 0

IngestOf(c) == c.op = "ingest" /\ endswith(c.args[1], ".zip")

-----------------------------------------------------------------------------
(* Ingestion claims, under IngestSpec.                                     *)

\* C1: an ingest of an archive that contains exactly one CSV file returns the
\* Table decoded from that file, whatever earlier ingest calls left in the
\* extraction directory.  Stated for the project working directory and archives
\* without sub-directories, where the three directories of ingest coincide.
C1_IngestReturnsTheArchiveTable ==
    (/\ IngestOf(call)
     /\ cwd = ProjectDir
     /\ Flat(ArchiveAt[call.args[1]])
     /\ Cardinality(TabularFiles(ArchiveAt[call.args[1]])) = 1)
    => \E n \in TabularFiles(ArchiveAt[call.args[1]]) :
            ret = ReturnTable(read_csv(ArchiveAt[call.args[1]][n]))

\* C2: an ingest of an archive with no CSV file fails with
\* NoTabularFileFoundError and one of an archive with two or more fails with
\* AmbiguousTabularFileError, whatever was ingested before.  Stated for the
\* project working directory and archives without sub-directories.
C2_IngestCountsTheArchiveFiles ==
    (/\ IngestOf(call)
     /\ cwd = ProjectDir
     /\ Flat(ArchiveAt[call.args[1]]))
    => /\ Cardinality(TabularFiles(ArchiveAt[call.args[1]])) = 0
            => NoTabularFileFoundError(ret)
       /\ Cardinality(TabularFiles(ArchiveAt[call.args[1]])) >= 2
            => AmbiguousTabularFileError(ret)

\* C3: get_data_ingestor returns a ZipDataIngestor exactly when the extension is
\* ".zip" and fails with UnsupportedFormatError, returning no ingestor, for
\* every other extension.
C3_FactorySelectsZipOnly ==
    call.op = "get_data_ingestor" =>
        IF call.args[1] = ".zip"
        THEN ret = [kind |-> "ingestor", cls |-> "ZipDataIngestor"]
        ELSE UnsupportedFormatError(ret)

C3_Witness ==
    /\ call.op = "get_data_ingestor"
    /\ call.args[1] = ".ZIP"
    /\ UnsupportedFormatError(ret)

\* C4: an ingest of a path that does not end in ".zip" fails with
\* UnsupportedFormatError and leaves every extraction directory as it was.
C4_UnsupportedPathTouchesNothing ==
    [][(call'.op = "ingest" /\ ~endswith(call'.args[1], ".zip"))
            => (UnsupportedFormatError(ret') /\ fs' = fs)]_vars

C4_Witness ==
    /\ call.op = "ingest"
    /\ call.args[1] = "a.ZIP"
    /\ UnsupportedFormatError(ret)
    /\ fs[ExtractallDir] = Dir("y.csv" :> CsvB)

\* C10: within one ingest call the directory extracted into, the directory
\* listed and the directory read from are one location, in every working
\* directory.
C10_OneExtractionDirectory ==
    IngestOf(call) =>
        /\ resolve(cwd, ExtractallDir) = resolve(cwd, ListdirDir)
        /\ resolve(cwd, ListdirDir) = resolve(cwd, ReadDir)

-----------------------------------------------------------------------------
(* Analysis claims, under AnalysisSpec.                                    *)

NumericColumn(d, name) ==
    HasColumn(d, name) /\ d.dtype[ColumnIndex(d, name)] = "num"

\* the values of a column, one per row in row order
Column(d, name) == [r \in 1..Len(d.rows) |-> d.rows[r][ColumnIndex(d, name)]]

\* the values of column name in the rows where neither name nor other is missing
CompleteColumn(d, name, other) ==
    LET complete == {r \in 1..Len(d.rows) :
                        /\ d.rows[r][ColumnIndex(d, name)] # NaN
                        /\ d.rows[r][ColumnIndex(d, other)] # NaN}
        kept == SelectSeq2(Indices(Len(d.rows)), complete)
    IN  [i \in 1..Len(kept) |-> d.rows[kept[i]][ColumnIndex(d, name)]]

\* the figures a step displays
Displayed(before, after) == SubSeq(after, Len(before) + 1, Len(after))

Scatters(figs) == {i \in 1..Len(figs) : figs[i].kind = "scatter"}

\* C5: execute_analysis with a feature that is no column of the table fails
\* with UnknownColumnError naming that column and renders nothing: no figure is
\* displayed and none is left open.
C5_UnknownColumnIsRejected ==
    [][(/\ call'.op = "execute_analysis"
        /\ \E i \in {2, 3} : ~HasColumn(call'.args[1], call'.args[i]))
       => /\ \E i \in {2, 3} :
                /\ ~HasColumn(call'.args[1], call'.args[i])
                /\ UnknownColumnError(ret', call'.args[i])
          /\ open' = open
          /\ rendered' = rendered]_vars

\* C7, as claimed: the numeric strategy on two numeric columns completes and
\* displays one scatter with one point per row, x the first column and y the
\* second, titled "{feature1} vs {feature2}".
C7_OnePointPerRow ==
    [][(/\ call'.op = "execute_analysis"
        /\ strategy[call'.self] = NumericalVsNumericalAnalysis
        /\ NumericColumn(df, call'.args[2])
        /\ NumericColumn(df, call'.args[3]))
       => LET shown == Displayed(rendered, rendered') IN
          /\ ret' = ReturnNone
          /\ Cardinality(Scatters(shown)) = 1
          /\ \A i \in Scatters(shown) :
                /\ shown[i].x = Column(df, call'.args[2])
                /\ shown[i].y = Column(df, call'.args[3])
                /\ shown[i].title = call'.args[2] \o " vs " \o call'.args[3]]_vars

\* C7, amended: the numeric strategy on two numeric columns completes and
\* displays one scatter with one point per row in which both values are
\* present, in row order, x the first column and y the second, titled
\* "{feature1} vs {feature2}".
C7_OnePointPerCompleteRow ==
    [][(/\ call'.op = "execute_analysis"
        /\ strategy[call'.self] = NumericalVsNumericalAnalysis
        /\ NumericColumn(df, call'.args[2])
        /\ NumericColumn(df, call'.args[3]))
       => LET shown == Displayed(rendered, rendered') IN
          /\ ret' = ReturnNone
          /\ Cardinality(Scatters(shown)) = 1
          /\ \A i \in Scatters(shown) :
                /\ shown[i].x = CompleteColumn(df, call'.args[2], call'.args[3])
                /\ shown[i].y = CompleteColumn(df, call'.args[3], call'.args[2])
                /\ shown[i].title = call'.args[2] \o " vs " \o call'.args[3]]_vars

\* the scenario of the design: 3 rows give exactly 3 points
C7_Witness ==
    /\ call.op = "execute_analysis"
    /\ call.args = <<ScenarioTable, "Gr Liv Area", "SalePrice">>
    /\ log[Len(log)].strategy = NumericalVsNumericalAnalysis
    /\ ret = ReturnNone
    /\ rendered[Len(rendered)].x = <<"1000", "1500", "2000">>
    /\ rendered[Len(rendered)].y = <<"200000", "250000", "300000">>
    /\ rendered[Len(rendered)].title = "Gr Liv Area vs SalePrice"

-----------------------------------------------------------------------------
(* Inspection claims, under InspectSpec.                                   *)

\* C8: an execute_strategy that ends in an error has written nothing to the
\* console.
C8_FailedInspectionPrintsNothing ==
    [][(call'.op = "execute_strategy" /\ ret'.kind = "error") => sink' = sink]_vars

-----------------------------------------------------------------------------
(* Claims about the contexts, under StrategySpec.                          *)

Executes(c) == c.op \in {"execute_strategy", "execute_analysis"}

\* C6: every execute_strategy and execute_analysis invokes exactly once, with
\* the arguments it was given, the strategy last installed in its context (by
\* the constructor or by the last set_strategy); no other step invokes a
\* strategy, and the invocations already made stay as they were.
C6_ExecuteInvokesInstalledStrategy ==
    [][IF Executes(call')
       THEN log' = Append(log, Invocation(installed[call'.self], call'.args))
       ELSE log' = log]_vars

\* two executions of one analyzer with a swap between them
C6_Witness ==
    /\ Len(log) = 2
    /\ log[1].strategy = NumericalVsNumericalAnalysis
    /\ log[2].strategy = CategoricalVsNumericalStrategyAnalysis
    /\ call.op = "execute_analysis"

\* C9: no step changes the Table; a step that changes a context's strategy is a
\* set_strategy on that context, and it changes no other context's.
C9_ExecuteLeavesTableAndStrategy ==
    [][/\ df' = df
       /\ \A c \in Contexts :
            strategy'[c] # strategy[c] => (call'.op = "set_strategy" /\ call'.self = c)
       /\ Executes(call') => strategy' = strategy]_vars

\* an inspection and an analysis of a table with missing values, after a swap
C9_Witness ==
    /\ df = read_csv(CsvB)
    /\ Len(log) = 2
    /\ log[1].strategy = SummaryStatisticsInspectionStrategy
    /\ log[2].strategy \in AnalysisStrategies
    /\ strategy["inspector1"] # strategy["inspector2"]
    /\ call.op = "execute_analysis"

=============================================================================
